---------------------------- MODULE Spec2Model ----------------------------
(***************************************************************************)
(* A model of the Fenwick tree (binary indexed tree) of fenwick-tree-rs.   *)
(*                                                                         *)
(* src/src/tree.rs holds the buffer and the two traversals: `sum` over a   *)
(* half-open Range<usize> (two descents by prev) and `add` (an ascent by   *)
(* next).  The Result-returning entry points that the tests of             *)
(* src/src/tests.rs call (bound normalisation, the OutOfRange and          *)
(* IndexOutOfRange checks) are not in tree.rs; they are modelled from the  *)
(* specification and are named as such where they are defined.             *)
(*                                                                         *)
(* The buffer is a function on 0..len-1, so indices are those of the code. *)
(* A call is modelled step by step: `call` is the frame of the call that   *)
(* is running or has last returned (its cursors i and j, its accumulator   *)
(* s, the buffer index its last step touched, its return value).  `&mut    *)
(* self` on add and `&self` on sum mean that calls never interleave, so a  *)
(* new call starts only when the previous one has returned.                *)
(*                                                                         *)
(* `vals` is a history variable, not program state: the logical array, ie  *)
(* the total of the deltas added at each index.                            *)
(*                                                                         *)
(* Element values are mathematical integers (I is generic; the model does  *)
(* not fix a width), and all indices stay far below usize::MAX.            *)
(***************************************************************************)
EXTENDS Integers, FiniteSets, Sequences, TLC

VARIABLES tree, call, vals

vars == <<tree, call, vals>>

(* Bounds of the model. *)
MaxLen == 4
MaxVal == 1

Deltas == {-1, 1}

(***************************************************************************)
(* usize bit operations.                                                   *)
(***************************************************************************)
RECURSIVE BitAnd(_, _)
BitAnd(a, b) ==
    IF a = 0 \/ b = 0 THEN 0
    ELSE (IF a % 2 = 1 /\ b % 2 = 1 THEN 1 ELSE 0) + 2 * BitAnd(a \div 2, b \div 2)

RECURSIVE BitOr(_, _)
BitOr(a, b) ==
    IF a = 0 THEN b
    ELSE IF b = 0 THEN a
    ELSE (IF a % 2 = 1 \/ b % 2 = 1 THEN 1 ELSE 0) + 2 * BitOr(a \div 2, b \div 2)

(* A faulty prev: a linear walk to the left. *)
prev_pred(i) == i - 1

(* prev: i & (i - 1).  Only ever reached with i >= 1 (see sumStep).        *)
prev(i) == BitAnd(i, i - 1)

(* A faulty next: a linear walk to the right. *)
next_succ(i) == i + 1

(* next: i | (i + 1). *)
next(i) == BitOr(i, i + 1)

(* size(): self.tree.len(). *)
size(t) == Cardinality(DOMAIN t)

(* of_size(size): vec![I::default(); size]. *)
of_size(n) == [p \in 0..(n - 1) |-> 0]

(***************************************************************************)
(* Call frames.                                                            *)
(***************************************************************************)
NoRet == [kind |-> "None"]
Unit == [kind |-> "Unit", val |-> 0]
Value(v) == [kind |-> "Value", val |-> v]

(***************************************************************************)
(* The Result-returning entry points (modelled from the specification;     *)
(* src/src/tests.rs calls them, src/src/errors.rs declares AddError).      *)
(***************************************************************************)
Unbounded == [kind |-> "Unbounded", v |-> 0]
Included(v) == [kind |-> "Included", v |-> v]
Excluded(v) == [kind |-> "Excluded", v |-> v]

(* Bound normalisation: an inclusive lower index, an exclusive upper one. *)
norm_start(b) ==
    CASE b.kind = "Included" -> b.v
      [] b.kind = "Excluded" -> b.v + 1
      [] OTHER -> 0

(* A faulty normalisation: an inclusive end taken as exclusive. *)
norm_end_noinc(b, len) ==
    CASE b.kind = "Excluded" -> b.v
      [] b.kind = "Included" -> b.v
      [] OTHER -> len

norm_end(b, len) ==
    CASE b.kind = "Excluded" -> b.v
      [] b.kind = "Included" -> b.v + 1
      [] OTHER -> len

OutOfRange(sb, eb, len) ==
    [kind |-> "Err", err |-> "OutOfRange", bounds |-> <<sb, eb>>, len |-> len]

IndexOutOfRange(index, len) ==
    [kind |-> "Err", err |-> "IndexOutOfRange", index |-> index, size |-> len]

Checked == {"sum_bounds", "add_checked"}

(* What a call that ran its loop returns: the Result API wraps it in Ok. *)
Wrap(op, raw) == IF op \in Checked THEN [kind |-> "Ok", val |-> raw.val] ELSE raw

(* A frame: the operation, the position in its body, its arguments, the    *)
(* accumulator s, the cursors i and j, the return value; and, as history,  *)
(* acc, the buffer indices the call has accessed so far, and old, the      *)
(* buffer as it was when the call started.                                 *)
Frame(op, pc, arg, i, j, old) ==
    [op |-> op, pc |-> pc, arg |-> arg, s |-> 0, i |-> i, j |-> j,
     acc |-> {}, old |-> old, ret |-> NoRet]

(* No call is running: the caller holds the tree. *)
NoCall == Frame("none", "idle", <<>>, 0, 0, <<>>)

(* A faulty cell: the one-based cursor used as the buffer index. *)
cell_zero(k) == k

(* The buffer index read by a descent step at one-based cursor k:          *)
(* self.tree[k - 1].                                                       *)
cell(k) == k - 1

(* A faulty sum: the second descent adds (`s +=`) where it must subtract. *)
sumStep_addboth(t, f) ==
    CASE f.pc = "loop1" ->
            IF f.j > f.i
            THEN IF (f.j - 1) \in DOMAIN t
                 THEN [f EXCEPT !.s = @ + t[f.j - 1], !.j = BitAnd(f.j, f.j - 1),
                                !.acc = @ \cup {f.j - 1}]
                 ELSE [f EXCEPT !.pc = "panic", !.acc = @ \cup {f.j - 1}]
            ELSE [f EXCEPT !.pc = "loop2"]
      [] f.pc = "loop2" ->
            IF f.i > f.j
            THEN IF (f.i - 1) \in DOMAIN t
                 THEN [f EXCEPT !.s = @ + t[f.i - 1], !.i = BitAnd(f.i, f.i - 1),
                                !.acc = @ \cup {f.i - 1}]
                 ELSE [f EXCEPT !.pc = "panic", !.acc = @ \cup {f.i - 1}]
            ELSE [f EXCEPT !.pc = "done", !.ret = Wrap(f.op, Value(f.s))]
      [] OTHER -> f

(***************************************************************************)
(* sum: one step of the body of FenwickTree::sum.  pc "loop1" is the test  *)
(* of `while j > i`, "loop2" the test of `while i > j`.  An index outside  *)
(* the buffer panics (Rust's bounds check; in a release build the          *)
(* underflow of 0 - 1 wraps to usize::MAX, which is out of bounds too).    *)
(***************************************************************************)
sumStep(t, f) ==
    CASE f.pc = "loop1" ->
            IF f.j > f.i
            THEN IF cell(f.j) \in DOMAIN t
                 THEN [f EXCEPT !.s = @ + t[cell(f.j)], !.j = prev(f.j),
                                !.acc = @ \cup {cell(f.j)}]
                 ELSE [f EXCEPT !.pc = "panic", !.acc = @ \cup {cell(f.j)}]
            ELSE [f EXCEPT !.pc = "loop2"]
      [] f.pc = "loop2" ->
            IF f.i > f.j
            THEN IF cell(f.i) \in DOMAIN t
                 THEN [f EXCEPT !.s = @ - t[cell(f.i)], !.i = prev(f.i),
                                !.acc = @ \cup {cell(f.i)}]
                 ELSE [f EXCEPT !.pc = "panic", !.acc = @ \cup {cell(f.i)}]
            ELSE [f EXCEPT !.pc = "done", !.ret = Wrap(f.op, Value(f.s))]
      [] OTHER -> f

Final == {"done", "panic"}

RECURSIVE sumRun(_, _)
sumRun(t, f) == IF f.pc \in Final THEN f ELSE sumRun(t, sumStep(t, f))

(* sum(range): the frame in which the call range.start..range.end ends.    *)
sum(t, start, end) ==
    sumRun(t, Frame("sum", "loop1", [start |-> start, end |-> end], start, end, t))

(* A faulty add: the one-based ascent of the module documentation          *)
(* (`i += i & -i`, cell i - 1) applied to the zero-based index.            *)
addStep_onebased(t, f) ==
    IF f.i >= 1 /\ f.i <= size(t)
    THEN [tree |-> [t EXCEPT ![f.i - 1] = @ + f.arg.delta],
          call |-> [f EXCEPT !.i = f.i + (f.i - BitAnd(f.i, f.i - 1)),
                             !.acc = @ \cup {f.i - 1}]]
    ELSE [tree |-> t, call |-> [f EXCEPT !.pc = "done", !.ret = Wrap(f.op, Unit)]]

(***************************************************************************)
(* add: one step of the body of FenwickTree::add, `while i < len`.         *)
(***************************************************************************)
addStep(t, f) ==
    IF f.i < size(t)
    THEN [tree |-> [t EXCEPT ![f.i] = @ + f.arg.delta],
          call |-> [f EXCEPT !.i = next(f.i), !.acc = @ \cup {f.i}]]
    ELSE [tree |-> t, call |-> [f EXCEPT !.pc = "done", !.ret = Wrap(f.op, Unit)]]

(***************************************************************************)
(* The frames in which the Result API starts a call: sum validates the     *)
(* normalised range before any cell is read, add checks the index before   *)
(* any cell is written.                                                    *)
(***************************************************************************)
(* A faulty validation: `start > len` for `start >= len`. *)
sum_enter_lenient(t, sb, eb) ==
    LET len == size(t)
        f == Frame("sum_bounds", "loop1", [sb |-> sb, eb |-> eb], norm_start(sb), norm_end(eb, len), t)
    IN IF norm_start(sb) > len \/ norm_end(eb, len) > len
       THEN [f EXCEPT !.pc = "done", !.ret = OutOfRange(sb, eb, len)]
       ELSE f

sum_enter(t, sb, eb) ==
    LET len == size(t)
        f == Frame("sum_bounds", "loop1", [sb |-> sb, eb |-> eb], norm_start(sb), norm_end(eb, len), t)
    IN IF norm_start(sb) >= len \/ norm_end(eb, len) > len
       THEN [f EXCEPT !.pc = "done", !.ret = OutOfRange(sb, eb, len)]
       ELSE f

add_enter(t, index, delta) ==
    LET len == size(t)
        f == Frame("add_checked", "loop", [index |-> index, delta |-> delta], index, 0, t)
    IN IF index >= len
       THEN [f EXCEPT !.pc = "done", !.ret = IndexOutOfRange(index, len)]
       ELSE f

(* sum(bounds) of the Result API, run to its end. *)
sum_bounds(t, sb, eb) == sumRun(t, sum_enter(t, sb, eb))

(***************************************************************************)
(* The state machine.                                                      *)
(***************************************************************************)
Init ==
    \E n \in 0..MaxLen :
        /\ tree = of_size(n)
        /\ vals = [p \in 0..(n - 1) |-> 0]
        /\ call = NoCall

Idle == call.pc = "idle"

Bounds(n) ==
    {Unbounded} \cup {Included(v) : v \in 0..(n + 1)} \cup {Excluded(v) : v \in 0..(n + 1)}

AddCall(index, delta, checked) ==
    /\ Idle
    /\ index < size(tree) => (vals[index] + delta) \in 0..MaxVal
    /\ call' = IF checked THEN add_enter(tree, index, delta)
                ELSE Frame("add", "loop", [index |-> index, delta |-> delta], index, 0, tree)
    /\ vals' = IF index < size(tree) THEN [vals EXCEPT ![index] = @ + delta] ELSE vals
    /\ UNCHANGED tree

AddStep ==
    /\ call.op \in {"add", "add_checked"} /\ call.pc = "loop"
    /\ LET r == addStep(tree, call) IN tree' = r.tree /\ call' = r.call
    /\ UNCHANGED vals

SumCall(start, end) ==
    /\ Idle
    /\ call' = Frame("sum", "loop1", [start |-> start, end |-> end], start, end, tree)
    /\ UNCHANGED <<tree, vals>>

SumBoundsCall(sb, eb) ==
    /\ Idle
    /\ call' = sum_enter(tree, sb, eb)
    /\ UNCHANGED <<tree, vals>>

SumStep ==
    /\ call.op \in {"sum", "sum_bounds"} /\ call.pc \in {"loop1", "loop2"}
    /\ call' = sumStep(tree, call)
    /\ UNCHANGED <<tree, vals>>

(* A call that has returned hands control back to the caller.  A panic    *)
(* ends the program.                                                       *)
Return ==
    /\ call.pc = "done"
    /\ call' = NoCall
    /\ UNCHANGED <<tree, vals>>

Next ==
    \/ \E index \in 0..(size(tree) + 1), delta \in Deltas, checked \in BOOLEAN :
            AddCall(index, delta, checked)
    \/ AddStep
    \/ \E start \in 0..(size(tree) + 1), end \in 0..(size(tree) + 1) : SumCall(start, end)
    \/ \E sb \in Bounds(size(tree)), eb \in Bounds(size(tree)) : SumBoundsCall(sb, eb)
    \/ SumStep
    \/ Return

Spec == Init /\ [][Next]_vars

(***************************************************************************)
(* Fairness: a call that is running takes its next step (the loops are     *)
(* straight-line code; nothing else is scheduled).                         *)
(***************************************************************************)
FairSpec == Spec /\ WF_vars(SumStep) /\ WF_vars(AddStep)

(***************************************************************************)
(* Vocabulary of the properties.                                           *)
(***************************************************************************)
TreeLen == size(tree)

(* The total of the logical elements at indices a <= k < b. *)
RECURSIVE RangeTotal(_, _, _)
RangeTotal(v, a, b) == IF a >= b THEN 0 ELSE v[a] + RangeTotal(v, a + 1, b)

(* g(k): the value of the lowest set bit of k >= 1. *)
RECURSIVE lowbit(_)
lowbit(k) == IF k % 2 = 1 THEN 1 ELSE 2 * lowbit(k \div 2)

SumOps == {"sum", "sum_bounds"}
AddOps == {"add", "add_checked"}

(* The half-open range a call of sum works on. *)
RangeStart == IF call.op = "sum" THEN call.arg.start ELSE norm_start(call.arg.sb)
RangeEnd == IF call.op = "sum" THEN call.arg.end ELSE norm_end(call.arg.eb, TreeLen)

(***************************************************************************)
(* C1: after any sequence of add calls, sum over a range a..b with         *)
(* 0 <= a <= b <= len returns the total of the deltas added at the indices *)
(* a <= i < b.  Stated of every call of sum(range) of tree.rs that has     *)
(* ended, and of every call of the Result API that returned Ok.            *)
(***************************************************************************)
C1_RangeSumIsTotal ==
    /\ (call.op = "sum" /\ call.pc \in Final
            /\ call.arg.start <= call.arg.end /\ call.arg.end <= TreeLen)
        => /\ call.pc = "done"
           /\ call.ret = Value(RangeTotal(vals, call.arg.start, call.arg.end))
    /\ (call.op = "sum_bounds" /\ call.pc \in Final /\ call.ret.kind # "Err"
            /\ RangeStart <= RangeEnd)
        => /\ call.pc = "done"
           /\ call.ret = [kind |-> "Ok", val |-> RangeTotal(vals, RangeStart, RangeEnd)]

C1_Witness ==
    /\ call.op = "sum" /\ call.pc = "done"
    /\ TreeLen = 4 /\ call.arg.start = 1 /\ call.arg.end = 4
    /\ \A p \in DOMAIN vals : vals[p] = 1
    /\ call.ret = Value(3)

(***************************************************************************)
(* C2 (as claimed): in every reachable tree state a call sum(a..b) with    *)
(* a >= b returns zero.  Stated of the ranges whose start lies inside the  *)
(* tree (a < len), which both entry points accept.                         *)
(***************************************************************************)
C2_EmptyOrDecreasingIsZero ==
    (call.op \in SumOps /\ call.pc \in Final
        /\ RangeStart >= RangeEnd /\ RangeStart < TreeLen)
    => /\ call.pc = "done"
       /\ call.ret.kind # "Err"
       /\ call.ret.val = 0

C5_Additivity ==
    (call.op \in AddOps /\ call.pc = "done" /\ call.arg.index < TreeLen) =>
        LET idx == call.arg.index
            before == sum(call.old, idx, idx + 1)
            after == sum(tree, idx, idx + 1)
        IN /\ before.pc = "done" /\ after.pc = "done"
           /\ after.ret = Value(before.ret.val + call.arg.delta)
           /\ \A a \in 0..TreeLen : \A b \in a..TreeLen :
                 (idx < a \/ idx >= b) =>
                    /\ sum(tree, a, b).ret = sum(call.old, a, b).ret
                    /\ sum_bounds(tree, Included(a), Excluded(b)).ret
                         = sum_bounds(call.old, Included(a), Excluded(b)).ret

C5_Witness ==
    /\ call.op = "add" /\ call.pc = "done"
    /\ TreeLen = 4 /\ call.arg.index = 2 /\ call.arg.delta = 1
    /\ vals = (0 :> 1 @@ 1 :> 1 @@ 2 :> 1 @@ 3 :> 1)
    /\ sum(call.old, 2, 3).ret = Value(0) /\ sum(tree, 2, 3).ret = Value(1)
    /\ sum(call.old, 0, 2).ret = Value(2) /\ sum(tree, 0, 2).ret = Value(2)
    /\ sum(call.old, 3, 4).ret = Value(1) /\ sum(tree, 3, 4).ret = Value(1)

(***************************************************************************)
(* C6: sum normalises a (start bound, end bound) pair to a half-open       *)
(* range: start Included(s) -> s, Excluded(s) -> s + 1, Unbounded -> 0;    *)
(* end Excluded(e) -> e, Included(e) -> e + 1, Unbounded -> len.  So the   *)
(* range forms .., a.., ..b, ..=b, a..=b and (Excluded(a), Included(b))    *)
(* have the outcome of the half-open forms they stand for, and a call that *)
(* returns Ok returns the total of that half-open range.                   *)
(***************************************************************************)
ClaimedStart(b) ==
    IF b.kind = "Included" THEN b.v ELSE IF b.kind = "Excluded" THEN b.v + 1 ELSE 0

ClaimedEnd(b) ==
    IF b.kind = "Excluded" THEN b.v ELSE IF b.kind = "Included" THEN b.v + 1 ELSE TreeLen

SameOutcome(r1, r2) ==
    /\ r1.pc = r2.pc
    /\ r1.ret.kind = r2.ret.kind
    /\ r1.ret.kind = "Ok" => r1.ret.val = r2.ret.val

HalfOpen(a, b) == sum_bounds(tree, Included(a), Excluded(b))

C7_PrefixConsistency ==
    /\ (call.op = "sum" /\ call.pc \in Final
            /\ call.arg.start <= call.arg.end /\ call.arg.end <= TreeLen) =>
          /\ call.pc = "done"
          /\ \A b \in call.arg.start..call.arg.end :
                LET left == sum(tree, call.arg.start, b)
                    right == sum(tree, b, call.arg.end)
                IN /\ left.pc = "done" /\ right.pc = "done"
                   /\ call.ret.val = left.ret.val + right.ret.val
    /\ (call.op = "sum_bounds" /\ call.pc = "done" /\ call.ret.kind = "Ok"
            /\ RangeStart <= RangeEnd) =>
          \A b \in RangeStart..RangeEnd :
                b < TreeLen =>
                   LET left == sum_bounds(tree, Included(RangeStart), Excluded(b))
                       right == sum_bounds(tree, Included(b), Excluded(RangeEnd))
                   IN /\ left.ret.kind = "Ok" /\ right.ret.kind = "Ok"
                      /\ call.ret.val = left.ret.val + right.ret.val

C7_Witness ==
    /\ call.op = "sum" /\ call.pc = "done"
    /\ TreeLen = 4 /\ call.arg.start = 1 /\ call.arg.end = 4
    /\ vals = (0 :> 1 @@ 1 :> 1 @@ 2 :> 0 @@ 3 :> 1)
    /\ call.ret = Value(2)
    /\ sum(tree, 1, 2).ret = Value(1) /\ sum(tree, 2, 4).ret = Value(1)
    /\ sum(tree, 1, 4).ret = Value(2) /\ sum(tree, 4, 4).ret = Value(0)

(***************************************************************************)
(* C8: the storage layout.  The buffer starts all zero and never changes   *)
(* length; whenever no add is in the middle of its loop, cell p holds the  *)
(* total of the logical elements (p+1) - g(p+1) .. p, g the lowest set bit;*)
(* and an add(index, delta) with index < len that has returned has added   *)
(* delta to exactly the cells index, next(index), ... below len, with      *)
(* next(i) = i | (i + 1), and left every other cell as it was.             *)
(***************************************************************************)
RECURSIVE AscentPath(_, _)
AscentPath(i, n) == IF i >= n THEN {} ELSE {i} \cup AscentPath(BitOr(i, i + 1), n)

LayoutHolds ==
    \A p \in DOMAIN tree : tree[p] = RangeTotal(vals, (p + 1) - lowbit(p + 1), p + 1)

AddWroteAscentPath ==
    (call.op \in AddOps /\ call.pc = "done" /\ call.arg.index < TreeLen) =>
        /\ call.acc = AscentPath(call.arg.index, TreeLen)
        /\ \A p \in DOMAIN tree :
              tree[p] = call.old[p] + (IF p \in call.acc THEN call.arg.delta ELSE 0)

C8_StorageLayout ==
    /\ \A p \in DOMAIN tree : tree[p] = 0
    /\ [][DOMAIN tree' = DOMAIN tree]_vars
    /\ []((~(call.op \in AddOps /\ call.pc = "loop")) => LayoutHolds)
    /\ []AddWroteAscentPath

C8_Witness ==
    /\ call.op = "add" /\ call.pc = "done"
    /\ TreeLen = 4 /\ call.arg.index = 0 /\ call.arg.delta = 1
    /\ call.acc = {0, 1, 3}
    /\ call.old = (0 :> 0 @@ 1 :> 1 @@ 2 :> 1 @@ 3 :> 2)
    /\ tree = (0 :> 1 @@ 1 :> 2 @@ 2 :> 1 @@ 3 :> 3)

RECURSIVE PrevChain(_)
PrevChain(k) == IF k = 0 THEN {0} ELSE {k} \cup PrevChain(k - lowbit(k))

Running == {"loop", "loop1", "loop2"}

StepsDescend ==
    /\ call.pc = "loop1" =>
          \/ call'.pc = "loop1" /\ call'.j < call.j /\ call'.j >= 0 /\ call'.i = call.i
          \/ call'.pc = "loop2" /\ call.j <= call.i /\ call'.j = call.j /\ call'.i = call.i
          \/ call'.pc = "panic" /\ ~(RangeStart <= RangeEnd /\ RangeEnd <= TreeLen)
    /\ call.pc = "loop2" =>
          \/ call'.pc = "loop2" /\ call'.i < call.i /\ call'.i >= 0 /\ call'.j = call.j
          \/ call'.pc = "done" /\ call.i <= call.j /\ call'.j = call.j /\ call'.i = call.i
          \/ call'.pc = "panic" /\ ~(RangeStart <= RangeEnd /\ RangeEnd <= TreeLen)
    /\ call.pc = "loop" =>
          \/ call'.pc = "loop" /\ call'.i > call.i /\ call.i < TreeLen
          \/ call'.pc = "done" /\ call.i >= TreeLen /\ call'.i = call.i

CursorsMeet ==
    (call.op \in SumOps /\ call.pc = "done" /\ call.ret.kind # "Err"
        /\ RangeStart <= RangeEnd /\ RangeEnd <= TreeLen) =>
        /\ call.i = call.j
        /\ call.i \in PrevChain(RangeStart) \cap PrevChain(RangeEnd)
        /\ call.ret.val = RangeTotal(vals, 0, RangeEnd) - RangeTotal(vals, 0, RangeStart)

C10_TraversalsStayInBuffer ==
    /\ (call.op \in SumOps /\ call.ret.kind # "Err"
            /\ RangeStart <= RangeEnd /\ RangeEnd <= TreeLen) =>
          /\ call.pc # "panic"
          /\ call.acc \subseteq 0..(TreeLen - 1)
          /\ (call.pc = "loop1" /\ call.j > call.i) => call.j >= 1
          /\ (call.pc = "loop2" /\ call.i > call.j) => call.i >= 1
    /\ (call.op \in AddOps /\ call.arg.index < TreeLen) =>
          /\ call.pc # "panic"
          /\ call.acc \subseteq 0..(TreeLen - 1)

C10_Witness ==
    /\ call.op = "sum" /\ call.pc = "done"
    /\ TreeLen = 4 /\ call.arg.start = 3 /\ call.arg.end = 4
    /\ call.acc = {1, 2, 3}
    /\ vals = (0 :> 1 @@ 1 :> 1 @@ 2 :> 1 @@ 3 :> 1)
    /\ call.ret = Value(1)

=============================================================================
